---- MODULE Spec2Model ----
(***************************************************************************)
(* Model of the ExecuTorch Flutter C wrapper: the error channel, the       *)
(* tensor validator, the host<->native tensor converters, the model        *)
(* loader/disposer and the forward invoker with its output release.        *)
(***************************************************************************)
EXTENDS Integers, Sequences, FiniteSets, TLC

(***************************************************************************)
(* Program constants (executorch_flutter_wrapper.h, error_codes.h).        *)
(***************************************************************************)
ET_FLUTTER_MAX_TENSOR_DIMS == 8
ET_FLUTTER_MAX_INPUTS == 16
ET_FLUTTER_MAX_OUTPUTS == 16
ET_FLUTTER_FILE_PATH_MAX_LEN == 512

ET_FLUTTER_SUCCESS == 0
ET_FLUTTER_ERROR_MODEL_LOAD == 1
ET_FLUTTER_ERROR_INFERENCE == 2
ET_FLUTTER_ERROR_VALIDATION == 3
ET_FLUTTER_ERROR_MEMORY == 4
ET_FLUTTER_ERROR_IO == 5
ET_FLUTTER_ERROR_INVALID_HANDLE == 7
ET_FLUTTER_ERROR_INVALID_ARGUMENT == 8

ET_FLUTTER_DTYPE_FLOAT32 == 0
ET_FLUTTER_DTYPE_INT32 == 1
ET_FLUTTER_DTYPE_INT8 == 2
ET_FLUTTER_DTYPE_UINT8 == 3

(***************************************************************************)
(* Bounds of the model.                                                    *)
(***************************************************************************)
\* largest num_inputs the host passes (one past the 16-slot array)
MaxNumInputs == 17
\* largest number of values the native engine returns
MaxNativeOutputs == 17
\* largest data_size the host states for a tensor handed to the validator
MaxDataSize == 8
\* how many times the host calls et_flutter_free_forward_output on one result
MaxFreeCalls == 2

\* the null pointer
NULL == [null |-> TRUE]
\* a host-owned data buffer
HOST_BUF == [buf |-> "host"]
\* the address of a descriptor (ETFlutterTensorData) the host owns
HOST_DESC == [desc |-> "host"]
\* a pointer that no allocation of the wrapper returned
WILD == [wild |-> TRUE]

(***************************************************************************)
(* ErrorChannel (error_mapping.c).  A message is the format with the       *)
(* arguments vsnprintf renders into it; the cleared message is the empty   *)
(* text.                                                                   *)
(***************************************************************************)
EmptyMessage == [fmt |-> "", args |-> <<>>]

\* et_flutter_clear_error: a null record is left alone
et_flutter_clear_error(error) ==
    IF error = NULL THEN NULL
    ELSE [code |-> ET_FLUTTER_SUCCESS, message |-> EmptyMessage]

\* et_flutter_set_error: a null record is left alone, else code and message
\* are overwritten
et_flutter_set_error(error, code, fmt, args) ==
    IF error = NULL THEN NULL
    ELSE [code |-> code, message |-> [fmt |-> fmt, args |-> args]]

\* whether the text vsnprintf renders from the message is the empty string:
\* the format is empty, or it is a lone %s given the empty string
RenderedEmpty(message) ==
    \/ message.fmt = ""
    \/ message.fmt = "%s" /\ message.args = <<"">>

\* an error record as memset(0) leaves it
ZeroedError == [code |-> 0, message |-> EmptyMessage]

(***************************************************************************)
(* size_t arithmetic.  A size_t value is the tuple of its bytes, least     *)
(* significant first; a product keeps the low SIZE_T_BYTES bytes, which is *)
(* the multiplication modulo 2^(8 * SIZE_T_BYTES) of the C type.           *)
(***************************************************************************)
\* sizeof(size_t) on the 64-bit targets
SIZE_T_BYTES == 8

RECURSIVE LowBytes(_, _)
\* the n low bytes of the non-negative integer x
LowBytes(x, n) == IF n = 0 THEN <<>> ELSE <<x % 256>> \o LowBytes(x \div 256, n - 1)

\* the n low bytes of the integer x in two's complement
ToBytes(x, n) ==
    IF x >= 0 THEN LowBytes(x, n)
    ELSE LET m == LowBytes(-x - 1, n) IN [k \in 1..n |-> 255 - m[k]]

\* the cast (size_t)x
ToSizeT(x) == ToBytes(x, SIZE_T_BYTES)

RECURSIVE ColumnSum(_, _, _, _)
\* the sum of a[i] * b[k - i] over i..k: column k of the long multiplication
ColumnSum(a, b, k, i) ==
    IF i > k THEN 0 ELSE a[i + 1] * b[k - i + 1] + ColumnSum(a, b, k, i + 1)

RECURSIVE MulBytes(_, _, _, _, _)
\* bytes k..n-1 of the product a * b, given the carry into column k; the
\* carry out of column n-1 is dropped
MulBytes(a, b, k, carry, n) ==
    IF k = n THEN <<>>
    ELSE LET t == ColumnSum(a, b, k, 0) + carry
         IN <<t % 256>> \o MulBytes(a, b, k + 1, t \div 256, n)

\* a * b in size_t
SizeMul(a, b) == MulBytes(a, b, 0, 0, SIZE_T_BYTES)

RECURSIVE BytesValue(_, _)
\* the integer whose bytes from index k on are s[k..]
BytesValue(s, k) == IF k > Len(s) THEN 0 ELSE s[k] + 256 * BytesValue(s, k + 1)

\* the integer a size_t holds
SizeValue(s) == BytesValue(s, 1)

(***************************************************************************)
(* ShapeAndDtype utilities (executorch_flutter_wrapper.c, tensor_utils.c). *)
(***************************************************************************)
et_flutter_dtype_size(dtype) ==
    CASE dtype = ET_FLUTTER_DTYPE_FLOAT32 -> 4
      [] dtype = ET_FLUTTER_DTYPE_INT32 -> 4
      [] dtype = ET_FLUTTER_DTYPE_INT8 -> 1
      [] dtype = ET_FLUTTER_DTYPE_UINT8 -> 1
      [] OTHER -> 0

\* dims[i] of the fixed 8-slot array; a read past the array yields the
\* value g that happens to lie there
ReadDim(shape, i, g) ==
    IF i < ET_FLUTTER_MAX_TENSOR_DIMS THEN shape.dims[i] ELSE g

RECURSIVE ElementProduct(_, _, _, _)
\* the loop "total_elements *= (size_t)dims[i]" from index i on; acc is
\* the size_t accumulated so far
ElementProduct(shape, i, acc, g) ==
    IF i < shape.num_dims
    THEN ElementProduct(shape, i + 1, SizeMul(acc, ToSizeT(ReadDim(shape, i, g))), g)
    ELSE acc

\* et_flutter_tensor_data_size: product of dims[0..num_dims-1] times the
\* dtype width, in size_t; g is what a read past dims[7] yields
et_flutter_tensor_data_size(tensor, g) ==
    IF tensor = NULL THEN ToSizeT(0)
    ELSE SizeMul(ElementProduct(tensor.shape, 0, ToSizeT(1), g),
                 ToSizeT(et_flutter_dtype_size(tensor.dtype)))

\* et_flutter_shape_element_count
et_flutter_shape_element_count(shape, g) ==
    IF shape = NULL \/ shape.num_dims <= 0 THEN ToSizeT(0)
    ELSE ElementProduct(shape, 0, ToSizeT(1), g)

(***************************************************************************)
(* Validator (tensor_utils.c).                                             *)
(***************************************************************************)
\* lowest index i < num_dims with dims[i] <= 0, or -1 (num_dims is in 1..8)
FirstBadDim(shape) ==
    LET bad == {i \in 0..(shape.num_dims - 1) : shape.dims[i] <= 0}
    IN IF bad = {} THEN -1 ELSE CHOOSE i \in bad : \A j \in bad : i <= j

\* the validator with the data-pointer check moved ahead of the shape checks
et_flutter_tensor_validate_DataFirst(tensor, error) ==
    IF tensor = NULL
    THEN [ret |-> ET_FLUTTER_ERROR_INVALID_ARGUMENT,
          error |-> et_flutter_set_error(error, ET_FLUTTER_ERROR_INVALID_ARGUMENT,
                                         "Tensor pointer is NULL", <<>>)]
    ELSE IF tensor.data = NULL
    THEN [ret |-> ET_FLUTTER_ERROR_INVALID_ARGUMENT,
          error |-> et_flutter_set_error(error, ET_FLUTTER_ERROR_INVALID_ARGUMENT,
                                         "Tensor data pointer is NULL", <<>>)]
    ELSE IF tensor.shape.num_dims < 1 \/ tensor.shape.num_dims > ET_FLUTTER_MAX_TENSOR_DIMS
    THEN [ret |-> ET_FLUTTER_ERROR_VALIDATION,
          error |-> et_flutter_set_error(error, ET_FLUTTER_ERROR_VALIDATION,
                        "Invalid number of dimensions: %d (must be 1-%d)",
                        <<tensor.shape.num_dims, ET_FLUTTER_MAX_TENSOR_DIMS>>)]
    ELSE IF FirstBadDim(tensor.shape) # -1
    THEN [ret |-> ET_FLUTTER_ERROR_VALIDATION,
          error |-> et_flutter_set_error(error, ET_FLUTTER_ERROR_VALIDATION,
                        "Invalid dimension size at index %d: %lld (must be > 0)",
                        <<FirstBadDim(tensor.shape),
                          tensor.shape.dims[FirstBadDim(tensor.shape)]>>)]
    ELSE IF ToSizeT(tensor.data_size) # et_flutter_tensor_data_size(tensor, 0)
    THEN [ret |-> ET_FLUTTER_ERROR_VALIDATION,
          error |-> et_flutter_set_error(error, ET_FLUTTER_ERROR_VALIDATION,
                        "Tensor data size mismatch: got %zu bytes, expected %zu bytes",
                        <<tensor.data_size, et_flutter_tensor_data_size(tensor, 0)>>)]
    ELSE [ret |-> ET_FLUTTER_SUCCESS, error |-> et_flutter_clear_error(error)]

\* et_flutter_tensor_validate: the returned code and the error record after
\* the call
et_flutter_tensor_validate(tensor, error) ==
    IF tensor = NULL
    THEN [ret |-> ET_FLUTTER_ERROR_INVALID_ARGUMENT,
          error |-> et_flutter_set_error(error, ET_FLUTTER_ERROR_INVALID_ARGUMENT,
                                         "Tensor pointer is NULL", <<>>)]
    ELSE IF tensor.shape.num_dims < 1 \/ tensor.shape.num_dims > ET_FLUTTER_MAX_TENSOR_DIMS
    THEN [ret |-> ET_FLUTTER_ERROR_VALIDATION,
          error |-> et_flutter_set_error(error, ET_FLUTTER_ERROR_VALIDATION,
                        "Invalid number of dimensions: %d (must be 1-%d)",
                        <<tensor.shape.num_dims, ET_FLUTTER_MAX_TENSOR_DIMS>>)]
    ELSE IF FirstBadDim(tensor.shape) # -1
    THEN [ret |-> ET_FLUTTER_ERROR_VALIDATION,
          error |-> et_flutter_set_error(error, ET_FLUTTER_ERROR_VALIDATION,
                        "Invalid dimension size at index %d: %lld (must be > 0)",
                        <<FirstBadDim(tensor.shape),
                          tensor.shape.dims[FirstBadDim(tensor.shape)]>>)]
    ELSE IF tensor.data = NULL
    THEN [ret |-> ET_FLUTTER_ERROR_INVALID_ARGUMENT,
          error |-> et_flutter_set_error(error, ET_FLUTTER_ERROR_INVALID_ARGUMENT,
                                         "Tensor data pointer is NULL", <<>>)]
    ELSE IF ToSizeT(tensor.data_size) # et_flutter_tensor_data_size(tensor, 0)
    THEN [ret |-> ET_FLUTTER_ERROR_VALIDATION,
          error |-> et_flutter_set_error(error, ET_FLUTTER_ERROR_VALIDATION,
                        "Tensor data size mismatch: got %zu bytes, expected %zu bytes",
                        <<tensor.data_size, et_flutter_tensor_data_size(tensor, 0)>>)]
    ELSE [ret |-> ET_FLUTTER_SUCCESS, error |-> et_flutter_clear_error(error)]

\* et_flutter_validate_tensor: the public name of the validator
et_flutter_validate_tensor(tensor, error) == et_flutter_tensor_validate(tensor, error)

\* et_flutter_tensor_copy: the returned code, the error record and the
\* destination descriptor after the call; name is the text of src->name and
\* copied the number of bytes memcpy moved into dst->data
et_flutter_tensor_copy(src, dst, error, name) ==
    IF src = NULL \/ dst = NULL
    THEN [ret |-> ET_FLUTTER_ERROR_INVALID_ARGUMENT,
          error |-> et_flutter_set_error(error, ET_FLUTTER_ERROR_INVALID_ARGUMENT,
                                         "Source or destination tensor is NULL", <<>>),
          dst |-> dst]
    ELSE LET r == et_flutter_tensor_validate(src, error) IN
         IF r.ret # ET_FLUTTER_SUCCESS
         THEN [ret |-> r.ret, error |-> r.error, dst |-> dst]
         ELSE [ret |-> ET_FLUTTER_SUCCESS,
               error |-> et_flutter_clear_error(r.error),
               dst |-> [shape |-> src.shape, dtype |-> src.dtype,
                        data |-> dst.data, data_size |-> src.data_size,
                        name |-> name,
                        copied |-> IF dst.data # NULL /\ src.data # NULL
                                   THEN src.data_size ELSE 0]]

(***************************************************************************)
(* Host-side data: tensor descriptors (ETFlutterTensorData) the host can   *)
(* build, and the input sets (ETFlutterForwardInput) it passes to forward. *)
(***************************************************************************)
\* a descriptor of rank nd whose first dimension is a and last is b
MkTensor(nd, a, b, dtype, data, size) ==
    [shape |-> [num_dims |-> nd,
                dims |-> [k \in 0..(ET_FLUTTER_MAX_TENSOR_DIMS - 1) |->
                             IF k = 0 THEN a
                             ELSE IF k = nd - 1 THEN b
                             ELSE IF k < nd THEN 1 ELSE 0]],
     dtype |-> dtype, data |-> data, data_size |-> size]

\* a descriptor of rank nd whose dimensions all are d
MkUniform(nd, d, dtype, data, size) ==
    [shape |-> [num_dims |-> nd,
                dims |-> [k \in 0..(ET_FLUTTER_MAX_TENSOR_DIMS - 1) |->
                             IF k < nd THEN d ELSE 0]],
     dtype |-> dtype, data |-> data, data_size |-> size]

RankChoices == {0, 1, 2, ET_FLUTTER_MAX_TENSOR_DIMS, ET_FLUTTER_MAX_TENSOR_DIMS + 1}
\* dimensions of the large tensors: 256^8 = 2^64 and 4 * 128^8 = 2^58
LargeDimVals == {128, 256}
DimVals == {-1, 0, 1, 2}
\* the four enumerators and one value outside the enumeration
DtypeVals == 0..(ET_FLUTTER_DTYPE_UINT8 + 1)

\* what the host hands to et_flutter_validate_tensor
ValidatePool ==
    {NULL} \cup
    {MkTensor(nd, a, b, dt, data, size) :
        nd \in RankChoices, a \in DimVals, b \in DimVals, dt \in DtypeVals,
        data \in {NULL, HOST_BUF}, size \in 0..MaxDataSize}
    \cup
    {MkUniform(ET_FLUTTER_MAX_TENSOR_DIMS, d, dt, HOST_BUF, size) :
        d \in LargeDimVals, dt \in DtypeVals, size \in 0..MaxDataSize}

\* an error record still holding an earlier failure
StaleError ==
    [code |-> ET_FLUTTER_ERROR_IO,
     message |-> [fmt |-> "Model file not found: %s", args |-> <<"stale">>]]
ErrorArgs == {NULL, StaleError}

\* the destination buffer of a copy and the destinations the host passes
HOST_DST_BUF == [buf |-> "host_dst"]
CopyDestinations ==
    {NULL} \cup
    {[shape |-> T.shape, dtype |-> T.dtype, data |-> d, data_size |-> 0,
      name |-> "old", copied |-> 0] :
        T \in {MkTensor(0, 0, 0, ET_FLUTTER_DTYPE_FLOAT32, NULL, 0)},
        d \in {NULL, HOST_DST_BUF}}
\* the texts src->name can hold
TensorNames == {"", "input_0"}

\* what a caller passes to et_flutter_set_error: a code, a format and its
\* arguments
SetErrorArgs ==
    {[code |-> c, fmt |-> m[1], args |-> m[2]] :
        c \in {ET_FLUTTER_SUCCESS, ET_FLUTTER_ERROR_VALIDATION, ET_FLUTTER_ERROR_IO},
        m \in {<<"", <<>> >>, <<"%s", <<"">> >>, <<"%s", <<"what">> >>,
               <<"Model file not found: %s", <<"model.pte">> >>}}

T_ok == MkTensor(2, 2, 3, ET_FLUTTER_DTYPE_FLOAT32, HOST_BUF, 24)
T_rank0 == MkTensor(0, 0, 0, ET_FLUTTER_DTYPE_FLOAT32, HOST_BUF, 4)
T_rank9 == MkTensor(ET_FLUTTER_MAX_TENSOR_DIMS + 1, 2, 1, ET_FLUTTER_DTYPE_INT8, HOST_BUF, 2)
T_negdim == MkTensor(2, 2, -1, ET_FLUTTER_DTYPE_INT32, HOST_BUF, 8)
T_nulldata == MkTensor(2, 2, 3, ET_FLUTTER_DTYPE_FLOAT32, NULL, 24)
T_badsize == MkTensor(2, 2, 3, ET_FLUTTER_DTYPE_FLOAT32, HOST_BUF, 23)
T_baddtype == MkTensor(2, 2, 3, ET_FLUTTER_DTYPE_UINT8 + 1, HOST_BUF, 0)

\* the descriptor pointers the host puts into an input set
InputPool == {NULL, T_ok, T_rank0, T_rank9, T_negdim, T_nulldata, T_badsize, T_baddtype}
\* what a read past inputs[15] can find in the following memory
GarbageInputs == {NULL, T_negdim}
\* what a read past dims[7] can find in the following memory
GarbageDims == {0, 3}

NumInputsChoices == {-1, 0, 1} \cup (ET_FLUTTER_MAX_INPUTS..MaxNumInputs)

\* input sets: every slot points to d0 except slot s, which points to d
ForwardInputs ==
    {NULL} \cup
    {[num_inputs |-> n,
      inputs |-> [k \in 0..(ET_FLUTTER_MAX_INPUTS - 1) |-> IF k = s THEN d ELSE d0]] :
        n \in NumInputsChoices, s \in {0, 1}, d \in InputPool, d0 \in {T_ok, T_nulldata}}

(***************************************************************************)
(* The native engine as the wrapper sees it: the values forward returns,   *)
(* the error codes of its calls, and where it throws.                      *)
(***************************************************************************)
\* throws tells whether the value's accessor toTensor() raises an exception
\* when the output loop reaches it, and of which kind
NV_f32 == [isTensor |-> TRUE, scalar_type |-> "Float", sizes |-> <<2>>, throws |-> "none"]
NV_nontensor == [isTensor |-> FALSE, scalar_type |-> "None", sizes |-> <<>>, throws |-> "none"]
NV_double == [isTensor |-> TRUE, scalar_type |-> "Double", sizes |-> <<2>>, throws |-> "none"]
NV_rank0 == [isTensor |-> TRUE, scalar_type |-> "Int", sizes |-> <<>>, throws |-> "none"]
NV_rank9 == [isTensor |-> TRUE, scalar_type |-> "Byte", sizes |-> <<2, 1, 1, 1, 1, 1, 1, 1, 2>>,
             throws |-> "none"]
NV_throws_std == [isTensor |-> TRUE, scalar_type |-> "Float", sizes |-> <<2>>, throws |-> "std"]
NV_throws_unknown ==
    [isTensor |-> TRUE, scalar_type |-> "Float", sizes |-> <<2>>, throws |-> "unknown"]
NativeValuePool ==
    {NV_f32, NV_nontensor, NV_double, NV_rank0, NV_rank9, NV_throws_std, NV_throws_unknown}

NumOutputsChoices == {0, 1} \cup (ET_FLUTTER_MAX_OUTPUTS..MaxNativeOutputs)

\* output vectors: every value is NV_f32 except the one at index s
NativeOutputs ==
    {[k \in 1..n |-> IF k = s + 1 THEN v ELSE NV_f32] :
        n \in NumOutputsChoices, s \in {0, 1}, v \in NativeValuePool}

\* native Error values other than Error::Ok
NativeErrors == {"Internal", "InvalidArgument"}

\* outcomes of Module::forward
EngineResults ==
    {[kind |-> "throw", exc |-> e, error |-> "Ok", values |-> <<>>] : e \in {"std", "unknown"}}
    \cup {[kind |-> "result", exc |-> "none", error |-> e, values |-> <<>>] : e \in NativeErrors}
    \cup {[kind |-> "result", exc |-> "none", error |-> "Ok", values |-> v] : v \in NativeOutputs}

\* outcomes of the native calls of a load: where (if anywhere) an exception
\* is thrown, of which kind, and the Error the two load steps return
NativeLoadBehaviours ==
    [throw_at : {"none", "new ETFlutterModelData", "Module", "load", "load_forward"},
     exc : {"std", "unknown"},
     load_error : {"Ok"} \cup NativeErrors,
     method_error : {"Ok"} \cup NativeErrors]

\* paths the host passes to load, with what the filesystem probe answers
Paths ==
    {NULL} \cup
    {[len |-> l, exists |-> e, readable |-> r] :
        l \in {20, ET_FLUTTER_FILE_PATH_MAX_LEN - 1, ET_FLUTTER_FILE_PATH_MAX_LEN + 88},
        e \in BOOLEAN, r \in BOOLEAN}

\* et_flutter_platform_file_exists / et_flutter_platform_file_readable
et_flutter_platform_file_exists(path) == path # NULL /\ path.exists
et_flutter_platform_file_readable(path) == path # NULL /\ path.exists /\ path.readable

(***************************************************************************)
(* The C heap of the output descriptors: one struct and one data buffer    *)
(* per output slot.  bad collects the pointers handed to free() that were  *)
(* not live allocations (a double free or a wild pointer).                 *)
(***************************************************************************)
StructPtr(slot) == [kind |-> "struct", slot |-> slot]
DataPtr(slot) == [kind |-> "data", slot |-> slot]
AllocIds == {StructPtr(k) : k \in 0..(ET_FLUTTER_MAX_OUTPUTS - 1)}
            \cup {DataPtr(k) : k \in 0..(ET_FLUTTER_MAX_OUTPUTS - 1)}
EmptyHeap == [cells |-> [a \in AllocIds |-> "unalloc"], bad |-> {}]

\* malloc returning the block p
Malloc(h, p) == [h EXCEPT !.cells[p] = "live"]

\* free(p): null is a no-op; a pointer that is not a live block is recorded
Free(h, p) ==
    IF p = NULL THEN h
    ELSE IF p \in AllocIds /\ h.cells[p] = "live" THEN [h EXCEPT !.cells[p] = "freed"]
    ELSE [h EXCEPT !.bad = @ \cup {p}]

LiveBlocks(h) == {a \in AllocIds : h.cells[a] = "live"}

(***************************************************************************)
(* Converter, host -> native (zero copy).                                  *)
(***************************************************************************)
\* the switch over tensor->dtype
ToScalarType(dtype) ==
    CASE dtype = ET_FLUTTER_DTYPE_FLOAT32 -> "Float"
      [] dtype = ET_FLUTTER_DTYPE_INT32 -> "Int"
      [] dtype = ET_FLUTTER_DTYPE_INT8 -> "Char"
      [] dtype = ET_FLUTTER_DTYPE_UINT8 -> "Byte"
      [] OTHER -> "unmapped"

\* the converter without the test of the data pointer
convert_to_executorch_tensor_AcceptNullData(tensor, g) ==
    IF tensor = NULL
    THEN [ok |-> FALSE, tensor |-> NULL]
    ELSE IF ToScalarType(tensor.dtype) = "unmapped"
    THEN [ok |-> FALSE, tensor |-> NULL]
    ELSE [ok |-> TRUE,
          tensor |-> [scalar_type |-> ToScalarType(tensor.dtype),
                      sizes |-> [k \in 1..tensor.shape.num_dims |->
                                    ReadDim(tensor.shape, k - 1, g)],
                      data |-> tensor.data,
                      impl_alive |-> FALSE,
                      sizes_alive |-> FALSE,
                      src |-> tensor]]

\* convert_to_executorch_tensor: an error, or a Tensor viewing the host's
\* data.  The sizes vector and the TensorImpl are locals of the function,
\* so the returned Tensor refers to objects that ended with the call.
\* src is the descriptor the view was made from; g is what dims[8..] read.
convert_to_executorch_tensor(tensor, g) ==
    IF tensor = NULL \/ tensor.data = NULL
    THEN [ok |-> FALSE, tensor |-> NULL]
    ELSE IF ToScalarType(tensor.dtype) = "unmapped"
    THEN [ok |-> FALSE, tensor |-> NULL]
    ELSE [ok |-> TRUE,
          tensor |-> [scalar_type |-> ToScalarType(tensor.dtype),
                      sizes |-> [k \in 1..tensor.shape.num_dims |->
                                    ReadDim(tensor.shape, k - 1, g)],
                      data |-> tensor.data,
                      impl_alive |-> FALSE,
                      sizes_alive |-> FALSE,
                      src |-> tensor]]

(***************************************************************************)
(* Converter, native -> host (owning copy).                                *)
(***************************************************************************)
\* the switch over tensor.scalar_type()
FromScalarType(st) ==
    CASE st = "Float" -> ET_FLUTTER_DTYPE_FLOAT32
      [] st = "Int" -> ET_FLUTTER_DTYPE_INT32
      [] st = "Char" -> ET_FLUTTER_DTYPE_INT8
      [] st = "Byte" -> ET_FLUTTER_DTYPE_UINT8
      [] OTHER -> -1

\* the descriptor convert_from_executorch_tensor fills in for output slot
\* `slot`: num_dims is the native rank, unclamped; only dims[0..7] are written
FilledDescriptor(tensor, slot, g) ==
    LET shape == [num_dims |-> Len(tensor.sizes),
                  dims |-> [k \in 0..(ET_FLUTTER_MAX_TENSOR_DIMS - 1) |->
                               IF k < Len(tensor.sizes) THEN tensor.sizes[k + 1] ELSE 0]]
        partial == [shape |-> shape, dtype |-> FromScalarType(tensor.scalar_type),
                    data |-> NULL, data_size |-> 0]
    IN [shape |-> shape,
        dtype |-> FromScalarType(tensor.scalar_type),
        data |-> DataPtr(slot),
        data_size |-> SizeValue(et_flutter_tensor_data_size(partial, g)),
        ptr |-> StructPtr(slot)]

\* convert_from_executorch_tensor on heap h: the returned pointer (NULL on
\* failure) and the heap after.  mallocs tells which malloc, if any, fails.
convert_from_executorch_tensor(tensor, slot, mallocs, g, h) ==
    IF mallocs = "struct_fails"
    THEN [result |-> NULL, heap |-> h]
    ELSE IF FromScalarType(tensor.scalar_type) = -1
    THEN [result |-> NULL, heap |-> Free(Malloc(h, StructPtr(slot)), StructPtr(slot))]
    ELSE IF mallocs = "data_fails"
    THEN [result |-> NULL, heap |-> Free(Malloc(h, StructPtr(slot)), StructPtr(slot))]
    ELSE [result |-> FilledDescriptor(tensor, slot, g),
          heap |-> Malloc(Malloc(h, StructPtr(slot)), DataPtr(slot))]

MallocOutcomes == {"ok", "struct_fails", "data_fails"}

(***************************************************************************)
(* State.                                                                  *)
(***************************************************************************)
VARIABLES
    pc,            \* where the host / the running call is
    model_data,    \* the ETFlutterModelData block: "unalloc", "live", "freed"
    held_handle,   \* the model handle the host holds (NULL if none)
    file_path,     \* load: its path argument
    load_native,   \* load: how the native side behaved during the call
    result,        \* ETFlutterLoadResult of the last load
    load_trace,    \* native calls the last load made, in order
    model_handle,  \* forward: its handle argument
    input,         \* forward: its input argument (host memory)
    i,             \* forward: loop index
    inputs,        \* forward: std::vector<EValue> inputs
    outputs,       \* forward: forward_result.get()
    output,        \* forward: ETFlutterForwardOutput being built / returned
    heap,          \* C heap of output descriptors
    engine_calls,  \* Module::forward invocations of the running call
    oob_inputs,    \* indices >= 16 read from input->inputs
    oob_outputs,   \* indices >= 16 read from output->outputs
    free_log,      \* pointers passed to free() by the last free_forward_output
    free_calls,    \* calls of et_flutter_free_forward_output on this result
    free_arg,      \* argument of the last of them: "none", "NULL", "output"
    v_tensor,      \* validate: the tensor argument
    v_error,       \* validate/copy/set/clear: the error record after the call
    v_ret,         \* validate/copy: the returned code
    v_dst          \* copy: the destination descriptor after the call

vars == <<pc, model_data, held_handle, file_path, load_native, result, load_trace,
          model_handle, input, i, inputs, outputs, output, heap, engine_calls,
          oob_inputs, oob_outputs, free_log, free_calls, free_arg, v_tensor, v_error,
          v_ret, v_dst>>

loadVars == <<file_path, load_native, result, load_trace>>
fwdVars == <<model_handle, input, i, inputs, outputs, output, heap, engine_calls,
             oob_inputs, oob_outputs, free_log, free_calls, free_arg>>
valVars == <<v_tensor, v_error, v_ret, v_dst>>

\* memset(&result, 0, ...) followed by et_flutter_clear_error
ClearedLoadResult ==
    [error |-> et_flutter_clear_error(ZeroedError), model_handle |-> NULL,
     file_path_len |-> 0]

\* memset(&output, 0, ...) followed by et_flutter_clear_error
ClearedForwardOutput ==
    [error |-> et_flutter_clear_error(ZeroedError), num_outputs |-> 0,
     outputs |-> [k \in 0..(ET_FLUTTER_MAX_OUTPUTS - 1) |-> NULL]]

\* the pointer et_flutter_load_model hands out
MODEL_PTR == [kind |-> "model_data"]

\* no load is in progress: the native side did nothing
NoNativeCalls ==
    [throw_at |-> "none", exc |-> "std", load_error |-> "Ok", method_error |-> "Ok"]

Init ==
    /\ pc = "idle"
    /\ model_data = "unalloc"
    /\ held_handle = NULL
    /\ file_path = NULL
    /\ load_native = NoNativeCalls
    /\ result = ClearedLoadResult
    /\ load_trace = <<>>
    /\ model_handle = NULL
    /\ input = NULL
    /\ i = 0
    /\ inputs = <<>>
    /\ outputs = <<>>
    /\ output = ClearedForwardOutput
    /\ heap = EmptyHeap
    /\ engine_calls = <<>>
    /\ oob_inputs = {}
    /\ oob_outputs = {}
    /\ free_log = <<>>
    /\ free_calls = 0
    /\ free_arg = "none"
    /\ v_tensor = NULL
    /\ v_error = NULL
    /\ v_ret = ET_FLUTTER_SUCCESS
    /\ v_dst = NULL

(***************************************************************************)
(* Loader: et_flutter_load_model.                                          *)
(***************************************************************************)
\* the catch blocks of et_flutter_load_model
LoadCaught(r, exc) ==
    IF exc = "std"
    THEN [r EXCEPT !.error = et_flutter_set_error(@, ET_FLUTTER_ERROR_MODEL_LOAD,
                                "Exception during model load: %s", <<"what">>)]
    ELSE [r EXCEPT !.error = et_flutter_set_error(@, ET_FLUTTER_ERROR_MODEL_LOAD,
                                "Unknown exception during model load", <<>>)]

\* strncpy(result.file_path, file_path, MAX - 1) with the terminator forced
EchoedLen(len) ==
    IF len < ET_FLUTTER_FILE_PATH_MAX_LEN - 1 THEN len ELSE ET_FLUTTER_FILE_PATH_MAX_LEN - 1

\* the precondition checks with the readability probe ahead of the
\* existence probe
LoadPrecheck_ReadableFirst(path) ==
    IF path = NULL
    THEN et_flutter_set_error(ClearedLoadResult.error,
             ET_FLUTTER_ERROR_INVALID_ARGUMENT, "file_path is NULL", <<>>)
    ELSE IF ~et_flutter_platform_file_readable(path)
    THEN et_flutter_set_error(ClearedLoadResult.error,
             ET_FLUTTER_ERROR_IO, "Model file not readable: %s", <<path.len>>)
    ELSE IF ~et_flutter_platform_file_exists(path)
    THEN et_flutter_set_error(ClearedLoadResult.error,
             ET_FLUTTER_ERROR_IO, "Model file not found: %s", <<path.len>>)
    ELSE ClearedLoadResult.error

\* lines 45-63: the three precondition checks, in order; the error they
\* write, or the cleared record when all pass
LoadPrecheck(path) ==
    IF path = NULL
    THEN et_flutter_set_error(ClearedLoadResult.error,
             ET_FLUTTER_ERROR_INVALID_ARGUMENT, "file_path is NULL", <<>>)
    ELSE IF ~et_flutter_platform_file_exists(path)
    THEN et_flutter_set_error(ClearedLoadResult.error,
             ET_FLUTTER_ERROR_IO, "Model file not found: %s", <<path.len>>)
    ELSE IF ~et_flutter_platform_file_readable(path)
    THEN et_flutter_set_error(ClearedLoadResult.error,
             ET_FLUTTER_ERROR_IO, "Model file not readable: %s", <<path.len>>)
    ELSE ClearedLoadResult.error

\* the try block without the check of load_forward's result
LoadNative_IgnoreMethodError(path, nat) ==
    LET r == ClearedLoadResult IN
    IF nat.throw_at = "new ETFlutterModelData"
    THEN [result |-> LoadCaught(r, nat.exc), model_data |-> "unalloc", trace |-> <<>>]
    ELSE IF nat.throw_at = "Module"
    THEN [result |-> LoadCaught(r, nat.exc), model_data |-> "live",
          trace |-> <<"Module">>]
    ELSE IF nat.throw_at = "load"
    THEN [result |-> LoadCaught(r, nat.exc), model_data |-> "live",
          trace |-> <<"Module", "load">>]
    ELSE IF nat.load_error # "Ok"
    THEN [result |-> [r EXCEPT !.error = et_flutter_set_error(@,
                         ET_FLUTTER_ERROR_MODEL_LOAD,
                         "Failed to load ExecuTorch module: error code %d",
                         <<nat.load_error>>)],
          model_data |-> "freed", trace |-> <<"Module", "load">>]
    ELSE IF nat.throw_at = "load_forward"
    THEN [result |-> LoadCaught(r, nat.exc), model_data |-> "live",
          trace |-> <<"Module", "load", "load_forward">>]
    ELSE [result |-> [r EXCEPT !.model_handle = MODEL_PTR,
                               !.file_path_len = EchoedLen(path.len)],
          model_data |-> "live", trace |-> <<"Module", "load", "load_forward">>]

\* lines 65-109: the try block with the native side behaving as nat: the
\* returned result, the state of the model data block at return, and the
\* native calls made
LoadNative(path, nat) ==
    LET r == ClearedLoadResult IN
    IF nat.throw_at = "new ETFlutterModelData"
    THEN [result |-> LoadCaught(r, nat.exc), model_data |-> "unalloc", trace |-> <<>>]
    ELSE IF nat.throw_at = "Module"
    THEN [result |-> LoadCaught(r, nat.exc), model_data |-> "live",
          trace |-> <<"Module">>]
    ELSE IF nat.throw_at = "load"
    THEN [result |-> LoadCaught(r, nat.exc), model_data |-> "live",
          trace |-> <<"Module", "load">>]
    ELSE IF nat.load_error # "Ok"
    THEN [result |-> [r EXCEPT !.error = et_flutter_set_error(@,
                         ET_FLUTTER_ERROR_MODEL_LOAD,
                         "Failed to load ExecuTorch module: error code %d",
                         <<nat.load_error>>)],
          model_data |-> "freed", trace |-> <<"Module", "load">>]
    ELSE IF nat.throw_at = "load_forward"
    THEN [result |-> LoadCaught(r, nat.exc), model_data |-> "live",
          trace |-> <<"Module", "load", "load_forward">>]
    ELSE IF nat.method_error # "Ok"
    THEN [result |-> [r EXCEPT !.error = et_flutter_set_error(@,
                         ET_FLUTTER_ERROR_MODEL_LOAD,
                         "Failed to load forward method: error code %d",
                         <<nat.method_error>>)],
          model_data |-> "freed", trace |-> <<"Module", "load", "load_forward">>]
    ELSE [result |-> [r EXCEPT !.model_handle = MODEL_PTR,
                               !.file_path_len = EchoedLen(path.len)],
          model_data |-> "live", trace |-> <<"Module", "load", "load_forward">>]

\* the whole of et_flutter_load_model
LoadOutcome(path, nat) ==
    IF LoadPrecheck(path).code # ET_FLUTTER_SUCCESS
    THEN [result |-> [ClearedLoadResult EXCEPT !.error = LoadPrecheck(path)],
          model_data |-> "unalloc", trace |-> <<>>]
    ELSE LoadNative(path, nat)

\* the host loads a model while it holds none
et_flutter_load_model ==
    /\ pc = "idle"
    /\ held_handle = NULL
    /\ \E path \in Paths, nat \in NativeLoadBehaviours :
         LET o == LoadOutcome(path, nat) IN
         /\ file_path' = path
         /\ load_native' = nat
         /\ result' = o.result
         /\ model_data' = o.model_data
         /\ load_trace' = o.trace
         /\ held_handle' = o.result.model_handle
    /\ pc' = "load_returned"
    /\ UNCHANGED <<fwdVars, valVars>>

(***************************************************************************)
(* Disposer: et_flutter_dispose_model.                                     *)
(***************************************************************************)
et_flutter_dispose_model ==
    /\ pc = "idle"
    /\ \E h \in {NULL, held_handle} :
         IF h = NULL
         THEN UNCHANGED <<model_data, held_handle>>
         ELSE /\ model_data' = "freed"
              /\ held_handle' = NULL
    /\ pc' = "dispose_returned"
    /\ UNCHANGED <<loadVars, fwdVars, valVars>>

(***************************************************************************)
(* Validator entry point: et_flutter_validate_tensor.                      *)
(***************************************************************************)
ValidateTensor ==
    /\ pc = "idle"
    /\ \E tensor \in ValidatePool, error \in ErrorArgs :
         LET r == et_flutter_validate_tensor(tensor, error) IN
         /\ v_tensor' = tensor
         /\ v_error' = r.error
         /\ v_ret' = r.ret
    /\ pc' = "validate_returned"
    /\ UNCHANGED <<model_data, held_handle, loadVars, fwdVars, v_dst>>

\* the host copies a tensor with et_flutter_tensor_copy
TensorCopy ==
    /\ pc = "idle"
    /\ \E src \in InputPool, dst \in CopyDestinations, error \in ErrorArgs,
          name \in TensorNames :
         LET r == et_flutter_tensor_copy(src, dst, error, name) IN
         /\ v_tensor' = src
         /\ v_error' = r.error
         /\ v_ret' = r.ret
         /\ v_dst' = r.dst
    /\ pc' = "copy_returned"
    /\ UNCHANGED <<model_data, held_handle, loadVars, fwdVars>>

(***************************************************************************)
(* ErrorChannel called directly.                                           *)
(***************************************************************************)
\* a caller writes a record with et_flutter_set_error
SetError ==
    /\ pc = "idle"
    /\ \E error \in ErrorArgs \cup {ZeroedError}, a \in SetErrorArgs :
         v_error' = et_flutter_set_error(error, a.code, a.fmt, a.args)
    /\ pc' = "set_returned"
    /\ UNCHANGED <<model_data, held_handle, loadVars, fwdVars, v_tensor, v_ret, v_dst>>

\* a caller resets a record with et_flutter_clear_error
ClearError ==
    /\ pc = "idle"
    /\ \E error \in ErrorArgs \cup {ZeroedError} :
         v_error' = et_flutter_clear_error(error)
    /\ pc' = "clear_returned"
    /\ UNCHANGED <<model_data, held_handle, loadVars, fwdVars, v_tensor, v_ret, v_dst>>

(***************************************************************************)
(* ForwardInvoker: et_flutter_forward, one action per stage of the call.   *)
(***************************************************************************)
\* the catch blocks of et_flutter_forward
ForwardCaught(out, exc) ==
    [out EXCEPT
        !.error = IF exc = "std"
                  THEN et_flutter_set_error(@, ET_FLUTTER_ERROR_INFERENCE,
                           "Exception during forward pass: %s", <<"what">>)
                  ELSE et_flutter_set_error(@, ET_FLUTTER_ERROR_INFERENCE,
                           "Unknown exception during forward pass", <<>>),
        !.num_outputs = 0]

\* the entry with the input check placed ahead of the handle check
ForwardEnter_InputFirst ==
    /\ pc = "idle"
    /\ \E h \in {NULL, held_handle}, inp \in ForwardInputs :
         /\ model_handle' = h
         /\ input' = inp
         /\ IF inp = NULL \/ inp.num_inputs <= 0
            THEN /\ output' = [ClearedForwardOutput EXCEPT
                                  !.error = et_flutter_set_error(@,
                                      ET_FLUTTER_ERROR_INVALID_ARGUMENT,
                                      "input is NULL or has no tensors", <<>>)]
                 /\ pc' = "fwd_returned"
            ELSE IF h = NULL
            THEN /\ output' = [ClearedForwardOutput EXCEPT
                                  !.error = et_flutter_set_error(@,
                                      ET_FLUTTER_ERROR_INVALID_HANDLE,
                                      "model_handle is NULL", <<>>)]
                 /\ pc' = "fwd_returned"
            ELSE /\ output' = ClearedForwardOutput
                 /\ pc' = "fwd_convert_inputs"
    /\ i' = 0
    /\ inputs' = <<>>
    /\ outputs' = <<>>
    /\ heap' = EmptyHeap
    /\ engine_calls' = <<>>
    /\ oob_inputs' = {}
    /\ oob_outputs' = {}
    /\ free_log' = <<>>
    /\ free_calls' = 0
    /\ free_arg' = "none"
    /\ UNCHANGED <<model_data, held_handle, loadVars, valVars>>

\* entry: clear the output, reject a null handle, then a null or empty input
ForwardEnter ==
    /\ pc = "idle"
    /\ \E h \in {NULL, held_handle}, inp \in ForwardInputs :
         /\ model_handle' = h
         /\ input' = inp
         /\ IF h = NULL
            THEN /\ output' = [ClearedForwardOutput EXCEPT
                                  !.error = et_flutter_set_error(@,
                                      ET_FLUTTER_ERROR_INVALID_HANDLE,
                                      "model_handle is NULL", <<>>)]
                 /\ pc' = "fwd_returned"
            ELSE IF inp = NULL \/ inp.num_inputs <= 0
            THEN /\ output' = [ClearedForwardOutput EXCEPT
                                  !.error = et_flutter_set_error(@,
                                      ET_FLUTTER_ERROR_INVALID_ARGUMENT,
                                      "input is NULL or has no tensors", <<>>)]
                 /\ pc' = "fwd_returned"
            ELSE /\ output' = ClearedForwardOutput
                 /\ pc' = "fwd_convert_inputs"
    /\ i' = 0
    /\ inputs' = <<>>
    /\ outputs' = <<>>
    /\ heap' = EmptyHeap
    /\ engine_calls' = <<>>
    /\ oob_inputs' = {}
    /\ oob_outputs' = {}
    /\ free_log' = <<>>
    /\ free_calls' = 0
    /\ free_arg' = "none"
    /\ UNCHANGED <<model_data, held_handle, loadVars, valVars>>

\* one iteration of the input loop: read input->inputs[i] (past slot 15 the
\* read finds whatever gp lies there), convert it, push it (push_back may
\* throw)
ForwardConvertInput ==
    /\ pc = "fwd_convert_inputs"
    /\ i < input.num_inputs
    /\ \E gp \in GarbageInputs, g \in GarbageDims, thr \in {"none", "std", "unknown"} :
         LET ptr == IF i < ET_FLUTTER_MAX_INPUTS THEN input.inputs[i] ELSE gp
             tensor_result == convert_to_executorch_tensor(ptr, g)
         IN /\ oob_inputs' = IF i < ET_FLUTTER_MAX_INPUTS THEN oob_inputs
                             ELSE oob_inputs \cup {i}
            /\ IF ~tensor_result.ok
               THEN /\ output' = [output EXCEPT
                                     !.error = et_flutter_set_error(@,
                                         ET_FLUTTER_ERROR_VALIDATION,
                                         "Failed to convert input tensor %d", <<i>>)]
                    /\ pc' = "fwd_returned"
                    /\ UNCHANGED <<i, inputs>>
               ELSE IF thr # "none"
               THEN /\ output' = ForwardCaught(output, thr)
                    /\ pc' = "fwd_returned"
                    /\ UNCHANGED <<i, inputs>>
               ELSE /\ inputs' = Append(inputs, tensor_result.tensor)
                    /\ i' = i + 1
                    /\ UNCHANGED <<output, pc>>
    /\ UNCHANGED <<model_data, held_handle, loadVars, valVars, model_handle, input,
                   outputs, heap, engine_calls, oob_outputs, free_log, free_calls,
                   free_arg>>

\* the engine call with only the tensor values counted in num_outputs
ForwardExecute_CountTensorsOnly ==
    /\ pc = "fwd_convert_inputs"
    /\ ~(i < input.num_inputs)
    /\ engine_calls' = Append(engine_calls, [method |-> "forward", args |-> inputs])
    /\ \E forward_result \in EngineResults :
         IF forward_result.kind = "throw"
         THEN /\ output' = ForwardCaught(output, forward_result.exc)
              /\ pc' = "fwd_returned"
              /\ UNCHANGED <<i, outputs>>
         ELSE IF forward_result.error # "Ok"
         THEN /\ output' = [output EXCEPT
                               !.error = et_flutter_set_error(@,
                                   ET_FLUTTER_ERROR_INFERENCE,
                                   "Forward pass failed: error code %d",
                                   <<forward_result.error>>)]
              /\ pc' = "fwd_returned"
              /\ UNCHANGED <<i, outputs>>
         ELSE /\ outputs' = forward_result.values
              /\ output' = [output EXCEPT !.num_outputs =
                               Cardinality({k \in 1..Len(forward_result.values) :
                                               forward_result.values[k].isTensor})]
              /\ i' = 0
              /\ pc' = "fwd_convert_outputs"
    /\ UNCHANGED <<model_data, held_handle, loadVars, valVars, model_handle, input,
                   inputs, heap, oob_inputs, oob_outputs, free_log, free_calls,
                   free_arg>>

\* after the input loop: the single Module::forward call and its outcome
ForwardExecute ==
    /\ pc = "fwd_convert_inputs"
    /\ ~(i < input.num_inputs)
    /\ engine_calls' = Append(engine_calls, [method |-> "forward", args |-> inputs])
    /\ \E forward_result \in EngineResults :
         IF forward_result.kind = "throw"
         THEN /\ output' = ForwardCaught(output, forward_result.exc)
              /\ pc' = "fwd_returned"
              /\ UNCHANGED <<i, outputs>>
         ELSE IF forward_result.error # "Ok"
         THEN /\ output' = [output EXCEPT
                               !.error = et_flutter_set_error(@,
                                   ET_FLUTTER_ERROR_INFERENCE,
                                   "Forward pass failed: error code %d",
                                   <<forward_result.error>>)]
              /\ pc' = "fwd_returned"
              /\ UNCHANGED <<i, outputs>>
         ELSE /\ outputs' = forward_result.values
              /\ output' = [output EXCEPT !.num_outputs = Len(forward_result.values)]
              /\ i' = 0
              /\ pc' = "fwd_convert_outputs"
    /\ UNCHANGED <<model_data, held_handle, loadVars, valVars, model_handle, input,
                   inputs, heap, oob_inputs, oob_outputs, free_log, free_calls,
                   free_arg>>

RECURSIVE FreeEarlierOutputs_SkipData(_, _, _, _)
\* the cleanup loop releasing each struct but not its data buffer
FreeEarlierOutputs_SkipData(outs, k, n, h) ==
    IF k < n
    THEN FreeEarlierOutputs_SkipData(outs, k + 1, n,
             IF outs[k] # NULL THEN Free(h, outs[k].ptr) ELSE h)
    ELSE h

RECURSIVE FreeEarlierOutputs(_, _, _, _)
\* "Free already-allocated outputs": for j in k..n-1, free outs[j]->data and
\* outs[j] when outs[j] is not null
FreeEarlierOutputs(outs, k, n, h) ==
    IF k < n
    THEN FreeEarlierOutputs(outs, k + 1, n,
             IF outs[k] # NULL THEN Free(Free(h, outs[k].data), outs[k].ptr) ELSE h)
    ELSE h

\* the failure path without the reset of the count
OutputAllocFailed_KeepCount(out, k) ==
    [out EXCEPT !.outputs[k] = NULL,
                !.error = et_flutter_set_error(@, ET_FLUTTER_ERROR_MEMORY,
                              "Failed to allocate output tensor %zu", <<k>>)]

\* lines 261-272 on a null conversion result for slot k: the MEMORY error
\* and the count reset (the frees are FreeEarlierOutputs)
OutputAllocFailed(out, k) ==
    [out EXCEPT !.outputs[k] = NULL,
                !.error = et_flutter_set_error(@, ET_FLUTTER_ERROR_MEMORY,
                              "Failed to allocate output tensor %zu", <<k>>),
                !.num_outputs = 0]

\* one iteration of the output loop (i < outputs.size() and i < 16); an
\* exception of the native accessor outputs[i].toTensor() is absorbed by
\* the catch blocks around the loop
ForwardConvertOutput ==
    /\ pc = "fwd_convert_outputs"
    /\ i < Len(outputs) /\ i < ET_FLUTTER_MAX_OUTPUTS
    /\ \E mallocs \in MallocOutcomes, g \in GarbageDims :
         IF outputs[i + 1].isTensor /\ outputs[i + 1].throws # "none"
         THEN /\ output' = ForwardCaught(output, outputs[i + 1].throws)
              /\ pc' = "fwd_returned"
              /\ UNCHANGED <<i, heap>>
         ELSE IF outputs[i + 1].isTensor
         THEN LET c == convert_from_executorch_tensor(outputs[i + 1], i, mallocs, g, heap)
              IN IF c.result = NULL
                 THEN /\ output' = OutputAllocFailed(output, i)
                      /\ heap' = FreeEarlierOutputs(output.outputs, 0, i, c.heap)
                      /\ pc' = "fwd_returned"
                      /\ UNCHANGED i
                 ELSE /\ output' = [output EXCEPT !.outputs[i] = c.result]
                      /\ heap' = c.heap
                      /\ i' = i + 1
                      /\ UNCHANGED pc
         ELSE /\ i' = i + 1
              /\ UNCHANGED <<output, heap, pc>>
    /\ UNCHANGED <<model_data, held_handle, loadVars, valVars, model_handle, input,
                   inputs, outputs, engine_calls, oob_inputs, oob_outputs, free_log,
                   free_calls, free_arg>>

\* the output loop is over: return output
ForwardReturn ==
    /\ pc = "fwd_convert_outputs"
    /\ ~(i < Len(outputs) /\ i < ET_FLUTTER_MAX_OUTPUTS)
    /\ pc' = "fwd_returned"
    /\ UNCHANGED <<model_data, held_handle, loadVars, valVars, fwdVars>>

(***************************************************************************)
(* et_flutter_free_forward_output.                                         *)
(***************************************************************************)
\* what a read past outputs[15] can find in the host memory after the
\* struct: null, a wild pointer, the address of one of the host's input
\* descriptors, or a copy of the pointer in slot 0
GarbageOutputs(out) ==
    {NULL, [ptr |-> WILD, data |-> WILD], [ptr |-> WILD, data |-> NULL],
     [ptr |-> HOST_DESC, data |-> HOST_BUF]}
    \cup {[ptr |-> out.outputs[0].ptr, data |-> out.outputs[0].data] :
             x \in IF out.outputs[0] = NULL THEN {} ELSE {0}}

\* output->outputs[k], or the garbage gp past the end of the array
ReadOutput(out, k, gp) ==
    IF k < ET_FLUTTER_MAX_OUTPUTS THEN out.outputs[k] ELSE gp

RECURSIVE FreeLoop(_, _, _, _)
\* the loop of et_flutter_free_forward_output from index k on; st carries
\* the heap and the log of pointers passed to free()
FreeLoop(out, k, gp, st) ==
    IF k < out.num_outputs
    THEN LET p == ReadOutput(out, k, gp)
         IN FreeLoop(out, k + 1, gp,
                IF p = NULL THEN st
                ELSE [heap |-> Free(Free(st.heap, p.data), p.ptr),
                      log |-> IF p.data # NULL
                              THEN st.log \o <<p.data, p.ptr>>
                              ELSE Append(st.log, p.ptr)])
    ELSE st

\* the indices the loop reads past the end of the array
OutOfArrayReads(out) == {k \in ET_FLUTTER_MAX_OUTPUTS..(out.num_outputs - 1) : TRUE}

\* the host releases the result of the last forward (or passes NULL)
et_flutter_free_forward_output ==
    /\ pc \in {"fwd_returned", "fwd_freed"}
    /\ free_calls < MaxFreeCalls
    /\ \E arg \in {"NULL", "output"}, gp \in GarbageOutputs(output) :
         /\ free_arg' = arg
         /\ IF arg = "NULL"
            THEN /\ free_log' = <<>>
                 /\ UNCHANGED <<output, heap, oob_outputs>>
            ELSE LET st == FreeLoop(output, 0, gp, [heap |-> heap, log |-> <<>>])
                 IN /\ heap' = st.heap
                    /\ free_log' = st.log
                    /\ oob_outputs' = oob_outputs \cup OutOfArrayReads(output)
                    /\ output' = [output EXCEPT !.num_outputs = 0]
    /\ free_calls' = free_calls + 1
    /\ pc' = "fwd_freed"
    /\ UNCHANGED <<model_data, held_handle, loadVars, valVars, model_handle, input, i,
                   inputs, outputs, engine_calls, oob_inputs>>

(***************************************************************************)
(* The host moves on to its next call.                                     *)
(***************************************************************************)
HostContinue ==
    /\ pc \in {"load_returned", "dispose_returned", "validate_returned",
               "copy_returned", "set_returned", "clear_returned",
               "fwd_returned", "fwd_freed"}
    /\ pc' = "idle"
    /\ model_data' = IF held_handle = NULL THEN "unalloc" ELSE model_data
    /\ file_path' = NULL
    /\ load_native' = NoNativeCalls
    /\ result' = ClearedLoadResult
    /\ load_trace' = <<>>
    /\ model_handle' = NULL
    /\ input' = NULL
    /\ i' = 0
    /\ inputs' = <<>>
    /\ outputs' = <<>>
    /\ output' = ClearedForwardOutput
    /\ heap' = EmptyHeap
    /\ engine_calls' = <<>>
    /\ oob_inputs' = {}
    /\ oob_outputs' = {}
    /\ free_log' = <<>>
    /\ free_calls' = 0
    /\ free_arg' = "none"
    /\ v_tensor' = NULL
    /\ v_error' = NULL
    /\ v_ret' = ET_FLUTTER_SUCCESS
    /\ v_dst' = NULL
    /\ UNCHANGED held_handle

Next ==
    \/ et_flutter_load_model
    \/ et_flutter_dispose_model
    \/ ValidateTensor
    \/ TensorCopy
    \/ SetError
    \/ ClearError
    \/ ForwardEnter
    \/ ForwardConvertInput
    \/ ForwardExecute
    \/ ForwardConvertOutput
    \/ ForwardReturn
    \/ et_flutter_free_forward_output
    \/ HostContinue

Spec == Init /\ [][Next]_vars

(***************************************************************************)
(* Properties.                                                             *)
(***************************************************************************)

\* C1: whenever et_flutter_forward returns with error.code other than
\* SUCCESS, whatever the return path, the returned num_outputs is 0.
C1_ErrorMeansNoOutputs ==
    pc = "fwd_returned" =>
        (output.error.code # ET_FLUTTER_SUCCESS => output.num_outputs = 0)

\* a failed return taken after the engine had delivered outputs and the
\* count had been set
C1_Witness ==
    /\ pc = "fwd_returned"
    /\ output.error.code = ET_FLUTTER_ERROR_MEMORY
    /\ Len(outputs) >= ET_FLUTTER_MAX_OUTPUTS
    /\ i >= 1

\* the return from inside the output loop: conversion of output i gave null
ConversionFailedAt(k) ==
    /\ pc = "fwd_returned"
    /\ i = k
    /\ k < Len(outputs)
    /\ k < ET_FLUTTER_MAX_OUTPUTS
    /\ output.error.message.fmt \notin {"Exception during forward pass: %s",
                                         "Unknown exception during forward pass"}

\* C2: if conversion of the k-th native output returns null, then at return
\* every struct and data buffer allocated for outputs 0..k-1 has been freed
\* (exactly once, nothing of the call stays live), num_outputs is 0 and the
\* error code is MEMORY; non-tensor earlier outputs (null slots) included.
C2_PartialFailureCleanup ==
    \A k \in 0..(ET_FLUTTER_MAX_OUTPUTS - 1) :
        ConversionFailedAt(k) =>
            /\ output.error.code = ET_FLUTTER_ERROR_MEMORY
            /\ output.num_outputs = 0
            /\ LiveBlocks(heap) = {}
            /\ heap.bad = {}
            /\ \A j \in 0..(k - 1) :
                  IF outputs[j + 1].isTensor
                  THEN /\ heap.cells[StructPtr(j)] = "freed"
                       /\ heap.cells[DataPtr(j)] = "freed"
                  ELSE /\ heap.cells[StructPtr(j)] = "unalloc"
                       /\ heap.cells[DataPtr(j)] = "unalloc"

\* conversion fails at output 2 after a non-tensor output 0 and a converted
\* output 1
C2_Witness ==
    /\ ConversionFailedAt(2)
    /\ ~outputs[1].isTensor
    /\ outputs[2].isTensor
    /\ heap.cells[DataPtr(1)] = "freed"

\* C3: every input descriptor handed to the native engine's forward passes
\* the Validator (rank in 1..8, positive dimensions, non-null data,
\* data_size equal to the computed size).
C3_EngineSeesOnlyValidInputs ==
    \A c \in 1..Len(engine_calls) :
        \A a \in 1..Len(engine_calls[c].args) :
            et_flutter_tensor_validate(engine_calls[c].args[a].src, ZeroedError).ret
                = ET_FLUTTER_SUCCESS

\* the byte width the data model gives each element type (0: not a type)
C4_Width(dtype) ==
    IF dtype \in {ET_FLUTTER_DTYPE_FLOAT32, ET_FLUTTER_DTYPE_INT32} THEN 4
    ELSE IF dtype \in {ET_FLUTTER_DTYPE_INT8, ET_FLUTTER_DTYPE_UINT8} THEN 1
    ELSE 0

RECURSIVE C4_Product(_, _)
\* dims[0] * ... * dims[n-1]
C4_Product(dims, n) == IF n = 0 THEN 1 ELSE dims[n - 1] * C4_Product(dims, n - 1)

\* bytes enough for the exact byte size of eight dimensions below 2^15
WideBytes == 2 * SIZE_T_BYTES

RECURSIVE ExactProduct(_, _)
\* dims[0] * ... * dims[n-1] as an exact integer, in WideBytes bytes
ExactProduct(dims, n) ==
    IF n = 0 THEN ToBytes(1, WideBytes)
    ELSE MulBytes(ExactProduct(dims, n - 1), ToBytes(dims[n - 1], WideBytes), 0, 0,
                  WideBytes)

\* the exact byte size of tensor t: the product of its dimensions times the
\* width of its dtype, without any wrap-around
ExactByteSize(t) ==
    MulBytes(ExactProduct(t.shape.dims, t.shape.num_dims),
             ToBytes(C4_Width(t.dtype), WideBytes), 0, 0, WideBytes)

\* the code the fixed order of checks prescribes for tensor t
C4_ExpectedCode(t) ==
    IF t = NULL THEN ET_FLUTTER_ERROR_INVALID_ARGUMENT
    ELSE IF t.shape.num_dims < 1 \/ t.shape.num_dims > ET_FLUTTER_MAX_TENSOR_DIMS
    THEN ET_FLUTTER_ERROR_VALIDATION
    ELSE IF \E k \in 0..(t.shape.num_dims - 1) : t.shape.dims[k] <= 0
    THEN ET_FLUTTER_ERROR_VALIDATION
    ELSE IF t.data = NULL THEN ET_FLUTTER_ERROR_INVALID_ARGUMENT
    ELSE IF ToBytes(t.data_size, SIZE_T_BYTES) # SubSeq(ExactByteSize(t), 1, SIZE_T_BYTES)
    THEN ET_FLUTTER_ERROR_VALIDATION
    ELSE ET_FLUTTER_SUCCESS

C5_PreconditionFailed ==
    file_path = NULL \/ ~file_path.exists \/ ~file_path.readable

C6_HandleIffSuccess ==
    pc = "load_returned" =>
        /\ result.model_handle # NULL <=> result.error.code = ET_FLUTTER_SUCCESS
        /\ load_trace \in {<<>>, <<"Module">>, <<"Module", "load">>,
                           <<"Module", "load", "load_forward">>}
        /\ Len(load_trace) = 3 =>
              /\ load_native.load_error = "Ok"
              /\ load_native.throw_at \notin {"new ETFlutterModelData", "Module", "load"}
        /\ result.model_handle # NULL =>
              /\ load_trace = <<"Module", "load", "load_forward">>
              /\ load_native.load_error = "Ok"
              /\ load_native.method_error = "Ok"
              /\ load_native.throw_at = "none"
              /\ model_data = "live"

\* a successful load
C6_Witness ==
    /\ pc = "load_returned"
    /\ result.model_handle # NULL
    /\ result.error.code = ET_FLUTTER_SUCCESS
    /\ Len(load_trace) = 3

\* C7: whenever et_flutter_load_model returns a non-success result, the
\* model data block it allocated (if any) has been released.
C7_FailedLoadReleasesModelData ==
    (pc = "load_returned" /\ result.error.code # ET_FLUTTER_SUCCESS) =>
        model_data # "live"

RECURSIVE C8_ExpectedFrees(_, _)
\* for the populated slots k..n-1 in index order: the data buffer, then the
\* struct
C8_ExpectedFrees(k, n) ==
    IF k >= n THEN <<>>
    ELSE (IF output.outputs[k] # NULL THEN <<DataPtr(k), StructPtr(k)>> ELSE <<>>)
         \o C8_ExpectedFrees(k + 1, n)

\* C8: et_flutter_free_forward_output applied to the result of a successful
\* forward frees, slot by slot in index order, the data buffer then the
\* struct, each exactly once and nothing else, sets num_outputs to 0 and
\* leaves no allocation of that forward call live.
C8_FreeReleasesEverythingOnce ==
    (/\ pc = "fwd_freed"
     /\ free_calls = 1
     /\ free_arg = "output"
     /\ output.error.code = ET_FLUTTER_SUCCESS) =>
        /\ output.num_outputs = 0
        /\ free_log = C8_ExpectedFrees(0, IF Len(outputs) < ET_FLUTTER_MAX_OUTPUTS
                                          THEN Len(outputs) ELSE ET_FLUTTER_MAX_OUTPUTS)
        /\ LiveBlocks(heap) = {}
        /\ heap.bad = {}

\* C9: et_flutter_forward never reads input->inputs at an index >= 16,
\* whatever num_inputs is.
C9_NoInputReadPastArray == oob_inputs = {}

\* C10: the num_outputs et_flutter_forward returns never exceeds 16, and
\* et_flutter_free_forward_output never reads output->outputs at an index
\* >= 16.
C10_OutputCountBounded ==
    /\ pc \in {"fwd_returned", "fwd_freed"} => output.num_outputs <= ET_FLUTTER_MAX_OUTPUTS
    /\ oob_outputs = {}

\* C11: et_flutter_forward only reads its inputs: from entry to the end of the
\* call and through every later et_flutter_free_forward_output the input
\* set and its descriptors keep their values, and neither an input
\* descriptor nor an input data buffer is ever passed to free().
C11_InputsOnlyRead ==
    [][/\ (pc # "idle" /\ pc' # "idle") => input' = input
       /\ HOST_DESC \notin heap'.bad
       /\ HOST_BUF \notin heap'.bad]_vars

\* the error record the operation that just returned has written, if any
C12_WrittenRecords ==
    CASE pc \in {"validate_returned", "copy_returned", "set_returned", "clear_returned"}
            -> {v_error} \ {NULL}
      [] pc = "load_returned" -> {result.error}
      [] pc = "fwd_returned" -> {output.error}
      [] OTHER -> {}

\* C12: after every operation that writes an error record (set, clear,
\* validate, tensor copy, load, forward) the record has code SUCCESS if and
\* only if its message is empty.
C12_CodeIffMessage ==
    \A e \in C12_WrittenRecords :
        (e.code = ET_FLUTTER_SUCCESS) <=> RenderedEmpty(e.message)

\* C13: et_flutter_forward rejects a null handle with INVALID_HANDLE before
\* it looks at the input set (so a null handle with a null input gives
\* INVALID_HANDLE), and a null input set or one with num_inputs <= 0 with
\* INVALID_ARGUMENT; in both cases no input is converted or read and the
\* engine is not invoked.
C13_EntryChecks ==
    (/\ pc = "fwd_returned"
     /\ (model_handle = NULL \/ input = NULL \/ input.num_inputs <= 0)) =>
        /\ output.error.code = IF model_handle = NULL
                                THEN ET_FLUTTER_ERROR_INVALID_HANDLE
                                ELSE ET_FLUTTER_ERROR_INVALID_ARGUMENT
        /\ output.error.message.fmt = IF model_handle = NULL
                                       THEN "model_handle is NULL"
                                       ELSE "input is NULL or has no tensors"
        /\ output.num_outputs = 0
        /\ inputs = <<>>
        /\ engine_calls = <<>>
        /\ oob_inputs = {}
        /\ LiveBlocks(heap) = {}

\* forward(null, null) has returned INVALID_HANDLE
C13_Witness ==
    /\ pc = "fwd_returned"
    /\ model_handle = NULL
    /\ input = NULL
    /\ output.error.code = ET_FLUTTER_ERROR_INVALID_HANDLE

\* C14: et_flutter_validate_tensor returns a non-SUCCESS code for every
\* tensor whose dtype is not Float32, Int32, Int8 or UInt8, whatever its
\* data_size: an unknown dtype is never accepted by being sized as 0 bytes.
C14_UnknownDtypeRejected ==
    (/\ pc = "validate_returned"
     /\ v_tensor # NULL
     /\ v_tensor.dtype \notin {ET_FLUTTER_DTYPE_FLOAT32, ET_FLUTTER_DTYPE_INT32,
                               ET_FLUTTER_DTYPE_INT8, ET_FLUTTER_DTYPE_UINT8}) =>
        v_ret # ET_FLUTTER_SUCCESS

\* a descriptor pointer the host -> native conversion accepts
C15_Convertible(t) ==
    /\ t # NULL
    /\ t.data # NULL
    /\ t.dtype \in {ET_FLUTTER_DTYPE_FLOAT32, ET_FLUTTER_DTYPE_INT32,
                     ET_FLUTTER_DTYPE_INT8, ET_FLUTTER_DTYPE_UINT8}

\* the first k converted tensors are views of inputs[0..k-1], in that order
\* (indices inside the 16-slot array)
C15_InOrder(k) ==
    \A j \in 0..(k - 1) :
        j < ET_FLUTTER_MAX_INPUTS =>
            /\ inputs[j + 1].src = input.inputs[j]
            /\ C15_Convertible(input.inputs[j])

\* C15: et_flutter_forward converts its inputs in index order; at the first
\* input i whose conversion fails it returns VALIDATION with a message
\* naming i, having converted exactly inputs 0..i-1 and not invoked the
\* engine; the engine is invoked at most once per call, with all
\* num_inputs converted inputs in order, and only after every conversion
\* succeeded.
C15_InputConversionOrder ==
    /\ Len(engine_calls) <= 1
    /\ engine_calls # <<>> =>
          /\ Len(inputs) = input.num_inputs
          /\ engine_calls[1].args = inputs
          /\ C15_InOrder(input.num_inputs)
    /\ (pc = "fwd_returned" /\ output.error.code = ET_FLUTTER_ERROR_VALIDATION) =>
          /\ output.error.message.fmt = "Failed to convert input tensor %d"
          /\ output.error.message.args = <<Len(inputs)>>
          /\ Len(inputs) < input.num_inputs
          /\ C15_InOrder(Len(inputs))
          /\ Len(inputs) < ET_FLUTTER_MAX_INPUTS =>
                ~C15_Convertible(input.inputs[Len(inputs)])
          /\ engine_calls = <<>>
    /\ (pc \in {"fwd_convert_inputs", "fwd_convert_outputs", "fwd_returned"}
        /\ input # NULL) => C15_InOrder(Len(inputs))

\* a call with 16 inputs failed at input 1 after converting input 0
C15_Witness ==
    /\ pc = "fwd_returned"
    /\ output.error.code = ET_FLUTTER_ERROR_VALIDATION
    /\ output.error.message.args = <<1>>
    /\ Len(inputs) = 1
    /\ input.num_inputs = ET_FLUTTER_MAX_INPUTS
    /\ engine_calls = <<>>

\* the rank clamped to the 8 slots of the dims array
C16_ClampedRank(n) ==
    IF n < ET_FLUTTER_MAX_TENSOR_DIMS THEN n ELSE ET_FLUTTER_MAX_TENSOR_DIMS

\* C16: a host descriptor made from a native output of any rank has
\* num_dims at most 8, and its byte size is computed from dims[0..7] only:
\* nothing at index 8 or beyond of the dims array takes part, also when the
\* native rank exceeds 8.
C16_OutputRankClamped ==
    pc \in {"fwd_convert_outputs", "fwd_returned"} =>
        \A k \in 0..(ET_FLUTTER_MAX_OUTPUTS - 1) :
            output.outputs[k] # NULL =>
                /\ output.outputs[k].shape.num_dims <= ET_FLUTTER_MAX_TENSOR_DIMS
                /\ output.outputs[k].data_size
                      = C4_Product(output.outputs[k].shape.dims,
                                   C16_ClampedRank(Len(outputs[k + 1].sizes)))
                        * C4_Width(output.outputs[k].dtype)

\* C17: every output descriptor a successful et_flutter_forward hands back
\* has data_size = et_flutter_shape_element_count(shape) *
\* et_flutter_dtype_size(dtype), and a non-null data pointer whenever
\* data_size > 0, for every native output rank, rank 0 included.
C17_OutputDescriptorInvariant ==
    (pc = "fwd_returned" /\ output.error.code = ET_FLUTTER_SUCCESS) =>
        \A k \in 0..(ET_FLUTTER_MAX_OUTPUTS - 1) :
            output.outputs[k] # NULL =>
                /\ \A g \in GarbageDims :
                      ToSizeT(output.outputs[k].data_size)
                        = SizeMul(et_flutter_shape_element_count(output.outputs[k].shape, g),
                                  ToSizeT(et_flutter_dtype_size(output.outputs[k].dtype)))
                /\ output.outputs[k].data_size > 0 => output.outputs[k].data # NULL

C19_EngineInputsAlive ==
    \A c \in 1..Len(engine_calls) :
        \A k \in 1..Len(engine_calls[c].args) :
            /\ engine_calls[c].args[k].data = HOST_BUF
            /\ engine_calls[c].args[k].sizes_alive
            /\ engine_calls[c].args[k].impl_alive

\* C20: when et_flutter_forward returns INFERENCE because an exception was
\* caught, no output struct or data buffer allocated by that call is still
\* live (num_outputs is 0, so et_flutter_free_forward_output could not
\* release it).
C20_ExceptionFreesOutputs ==
    (/\ pc = "fwd_returned"
     /\ output.error.code = ET_FLUTTER_ERROR_INFERENCE) =>
        LiveBlocks(heap) = {}

\* C21: however often et_flutter_free_forward_output is called on the same
\* ForwardOutput, no output struct or data buffer is passed to free() more
\* than once: a call on the struct leaves num_outputs = 0, and a call that
\* finds num_outputs = 0 frees nothing and leaves the heap as it was.
C21_FreeIsIdempotent ==
    [][pc' = "fwd_freed" =>
          /\ heap'.bad \cap AllocIds = {}
          /\ free_arg' = "output" => output'.num_outputs = 0
          /\ (pc = "fwd_freed" /\ output.num_outputs = 0) =>
                /\ free_log' = <<>>
                /\ heap' = heap]_vars

\* C22: for every tensor et_flutter_tensor_validate accepts, data_size is
\* the exact product of the dimensions times the dtype width: the size_t
\* multiplications of the expected-size computation never wrap, so no
\* tensor whose true byte size exceeds the size_t range is accepted with a
\* smaller data_size.
C22_AcceptedSizeIsExact ==
    (/\ pc = "validate_returned"
     /\ v_ret = ET_FLUTTER_SUCCESS) =>
        ToBytes(v_tensor.data_size, WideBytes) = ExactByteSize(v_tensor)

====
